---- MODULE Spec2Model ----
(***************************************************************************)
(* parrot: the "generate" command.  Rows of a delimited source file are    *)
(* turned into work items, deduplicated, synthesised by AWS Polly (one     *)
(* concurrent call per distinct sentence) and written back, one target row *)
(* and one audio file write per work item.                                 *)
(*                                                                         *)
(* Strings are sequences of one-character strings.  Option<T> is a         *)
(* sequence of length 0 (None) or 1 (Some).                                *)
(***************************************************************************)
EXTENDS Integers, Sequences, FiniteSets, TLC

\* ------------------------------------------------------------------ bounds
\* Fields (rows times fields per row) of a source
MaxCells == 6
\* Fields of a source read with old audio files on disk
MaxSkipCells == 4
\* Voices of a catalogue
MaxVoices == 2

\* ----------------------------------------------------------------- strings
None == << >>
Some(x) == << x >>
IsSome(o) == Len(o) = 1

UpperCase == << "A", "B", "N" >>
LowerCase == << "a", "b", "n" >>

\* char::to_lowercase on the letters the model uses
ToLowerChar(c) ==
    IF \E i \in 1..Len(UpperCase) : UpperCase[i] = c
    THEN LowerCase[CHOOSE i \in 1..Len(UpperCase) : UpperCase[i] = c]
    ELSE c

\* str::to_lowercase
ToLowercase(s) == [i \in 1..Len(s) |-> ToLowerChar(s[i])]

Digits == << "0", "1", "2", "3", "4", "5", "6", "7", "8", "9" >>

RECURSIVE Decimal(_)
\* Display of an unsigned integer, as format!("{}", n) prints it
Decimal(n) ==
    IF n < 10 THEN << Digits[n + 1] >>
    ELSE Decimal(n \div 10) \o << Digits[(n % 10) + 1] >>

\* --------------------------------------------------------------- hashing
\* impl Hash for str: the bytes of the string, then the byte 0xff
HashStr(s) == s \o << "0xff" >>

\* The symbols a hasher can be fed in this model, in a fixed order.
HashSymbols == << "a", "b", "0xff" >>

SymbolCode(c) == CHOOSE i \in 1..Len(HashSymbols) : HashSymbols[i] = c

RECURSIVE Finish(_)
\* XXHasher::finish over everything written so far.  XXH64 is taken to be
\* collision free on the inputs of a run: the digest is the written bytes
\* read as a number, so it depends on every byte and on the field boundaries.
Finish(written) ==
    IF written = << >> THEN 0
    ELSE Finish(SubSeq(written, 1, Len(written) - 1)) * Len(HashSymbols)
         + SymbolCode(written[Len(written)])

RECURSIVE HashFields(_)
\* for field in record.iter() { field.hash(&mut hasher) }
HashFields(fields) ==
    IF fields = << >> THEN << >>
    ELSE HashStr(Head(fields)) \o HashFields(Tail(fields))

SentenceHash(record) == Finish(HashStr(record[1]))

RecordHash(record) ==
    IF Len(record) > 1 THEN Finish(HashFields(record)) ELSE SentenceHash(record)

\* format!("parrot_{}.mp3", sentence_hash)
OutputPath(sentence_hash) ==
    << "p", "a", "r", "r", "o", "t", "_" >> \o Decimal(sentence_hash)
        \o << ".", "m", "p", "3" >>

\* new_from_record naming the audio file after the hash of the whole record
NewFromRecordPathByRecordHash(seq, record) ==
    [ seq |-> seq,
      record |-> record,
      sentence_hash |-> SentenceHash(record),
      record_hash |-> RecordHash(record),
      output_path |-> OutputPath(RecordHash(record)) ]

\* new_from_record numbering the rows from 1
NewFromRecordOneBased(seq, record) ==
    [ seq |-> seq + 1,
      record |-> record,
      sentence_hash |-> SentenceHash(record),
      record_hash |-> RecordHash(record),
      output_path |-> OutputPath(SentenceHash(record)) ]

\* WorkItem::new_from_record
NewFromRecord(seq, record) ==
    [ seq |-> seq,
      record |-> record,
      sentence_hash |-> SentenceHash(record),
      record_hash |-> RecordHash(record),
      output_path |-> OutputPath(SentenceHash(record)) ]

\* ------------------------------------------------------------- work bundle
EmptyMap == << >>

NewWorkBundle == [ needs_tts |-> EmptyMap, work_items |-> << >> ]

\* entry(key).or_insert_with(|| value)
OrInsertWith(map, key, value) ==
    IF key \in DOMAIN map THEN map ELSE map @@ (key :> value)

\* add_work_item keying the map by the hash of the whole record
AddWorkItemByRecordHash(bundle, wi) ==
    [ needs_tts |-> OrInsertWith(bundle.needs_tts, wi.record_hash, wi.record[1]),
      work_items |-> Append(bundle.work_items, wi) ]

\* add_work_item pushing the item without its entry in needs_tts
AddWorkItemNoEntry(bundle, wi) ==
    [ needs_tts |-> bundle.needs_tts,
      work_items |-> Append(bundle.work_items, wi) ]

\* add_work_item storing the last field of the record as the sentence
AddWorkItemLastField(bundle, wi) ==
    [ needs_tts |-> OrInsertWith(bundle.needs_tts, wi.sentence_hash,
                                 wi.record[Len(wi.record)]),
      work_items |-> Append(bundle.work_items, wi) ]

\* WorkBundle::add_work_item
AddWorkItem(bundle, wi) ==
    [ needs_tts |-> OrInsertWith(bundle.needs_tts, wi.sentence_hash, wi.record[1]),
      work_items |-> Append(bundle.work_items, wi) ]

\* ------------------------------------------------------------- file system
CurDir == << << "." >> >>
OutDir == << << "o", "u", "t" >> >>
AudioDirs == { CurDir, OutDir }

\* A path as the file system resolves it from the working directory.
Resolve(path) == SelectSeq(path, LAMBDA c : c # << "." >>)

\* PathBuf::join
Join(dir, name) == dir \o << name >>

\* Path::exists
Exists(fs, path) == Resolve(path) \in DOMAIN fs

\* The file opened for appending: the bytes follow what the file held
WriteFileAppend(fs, path, bytes) ==
    [ p \in DOMAIN fs \cup { Resolve(path) } |->
        IF p = Resolve(path)
        THEN (IF p \in DOMAIN fs THEN fs[p] ELSE << >>) \o bytes
        ELSE fs[p] ]

\* File::create followed by write_all: the file holds exactly the bytes
WriteFile(fs, path, bytes) ==
    [ p \in DOMAIN fs \cup { Resolve(path) } |->
        IF p = Resolve(path) THEN bytes ELSE fs[p] ]

\* The path exec tests in its filter: the work item's output_path as it is.
ProbedPath(opts, wi) == << wi.output_path >>

\* The path exec creates the audio file at.
AudioPath(opts, wi) == Join(opts.audio_directory, wi.output_path)

\* The filter of exec without its seen set
RejectedIgnoringSeen(opts, fs, seenSet, wi) ==
    opts.force /\ Exists(fs, << wi.output_path >>)

\* The filter of exec: TRUE when the row is dropped.
Rejected(opts, fs, seenSet, wi) ==
    \/ opts.force /\ Exists(fs, ProbedPath(opts, wi))
    \/ wi.record_hash \in seenSet

\* ------------------------------------------------------------------ voices
NeuralStr == << "n", "e", "u", "r", "a", "l" >>
StandardStr == << "s", "t", "a", "n", "d", "a", "r", "d" >>

\* TTSVoice::new_from_voice
NewFromVoice(v) ==
    IF IsSome(v.id) /\ IsSome(v.gender) /\ IsSome(v.language_name)
       /\ IsSome(v.language_code)
    THEN Some([ id |-> v.id[1],
                gender |-> v.gender[1],
                language |-> v.language_name[1],
                code |-> v.language_code[1],
                neural |-> LET eng == IF IsSome(v.supported_engines)
                                      THEN v.supported_engines[1] ELSE << >>
                           IN \E i \in 1..Len(eng) : ToLowercase(eng[i]) = NeuralStr ])
    ELSE None

\* The id filter comparing the ids as they are
IdMatchesExactCase(v, requested) ==
    IF IsSome(v.id) THEN v.id[1] = requested ELSE FALSE

\* The filter of exec over the catalogue: the voices whose id matches.
IdMatches(v, requested) ==
    IF IsSome(v.id) THEN ToLowercase(v.id[1]) = ToLowercase(requested) ELSE FALSE

MatchingVoices(catalogue, requested) ==
    SelectSeq(catalogue, LAMBDA v : IdMatches(v, requested))

\* collect::<Result<Vec<TTSVoice>>>: fails when one conversion fails
ConversionFails(voices) ==
    \E i \in 1..Len(voices) : ~IsSome(NewFromVoice(voices[i]))

Converted(voices) == [i \in 1..Len(voices) |-> NewFromVoice(voices[i])[1]]

\* find(|v| !options.neural || v.neural)
Acceptable(opts, v) == ~opts.neural \/ v.neural

FindVoice(opts, voices) ==
    LET ok == SelectSeq(voices, LAMBDA v : Acceptable(opts, v))
    IN IF ok = << >> THEN None ELSE Some(Head(ok))

\* --------------------------------------------------------------- synthesis
\* SynthesizeSpeechInput of generate_one
SynthesisInput(sentence, v, use_neural) ==
    [ engine |-> IF use_neural THEN NeuralStr ELSE StandardStr,
      text |-> sentence,
      voice_id |-> v.id ]

\* The audio stream Polly answers a request with.
AudioOf(input) == << input.text, input.voice_id, input.engine >>

\* Content of an audio file that is on disk before the run.
OldAudio == << << "o", "l", "d" >> >>

\* The keys of a map in ascending order (BTreeMap iteration order)
RECURSIVE SortedKeys(_)
SortedKeys(keys) ==
    IF keys = {} THEN << >>
    ELSE LET m == CHOOSE k \in keys : \A j \in keys : k <= j
         IN << m >> \o SortedKeys(keys \ { m })

\* output_row: the record with the sound field pushed
SoundField(output_path) ==
    << "[", "s", "o", "u", "n", "d", ":" >> \o output_path \o << "]" >>

\* output_row with the bare path pushed
OutputRowBarePath(wi) == Append(wi.record, wi.output_path)

OutputRow(wi) == Append(wi.record, SoundField(wi.output_path))

\* ------------------------------------------------------------------- state
VARIABLES
    source,         \* what the csv reader yields: [readable, rows]
    options,        \* generate::Opts: force, neural, voice, audio_directory
    polly,          \* the backend's answer to describe_voices: [ok, voices]
    disk,           \* the file system when the run starts
    files,          \* the file system: resolved path -> bytes
    pc,             \* where main/exec stands
    seq,            \* rows consumed by the enumerate/filter_map of exec
    seen,           \* exec's seen set of record hashes
    filtered,       \* the Vec<WorkItem> collected by the filter
    work,           \* the WorkBundle
    maybe_voice,    \* Option<TTSVoice>
    calls,          \* generate_one futures of join_all: key -> [state, audio]
    requests,       \* SynthesizeSpeechInput values sent to Polly, in order
    completions,    \* keys of the calls in the order they completed
    results,        \* Option<BTreeMap<u64, Bytes>> returned by generate_many
    writer,         \* the csv writer on the target: [open, rows, flushed]
    next_item,      \* work items consumed by the emission loop
    audio_writes,   \* audio files written by the run, in order: [path, bytes]
    result,         \* Result of main_impl: "running", "ok" or the error
    stdout,         \* lines printed by main
    exit_status     \* process exit status, -1 while it runs

vars == << source, options, polly, disk, files, pc, seq, seen, filtered, work,
           maybe_voice, calls, requests, completions, results, writer,
           next_item, audio_writes, result, stdout, exit_status >>

env == << source, options, polly, disk >>

NoError == [ kind |-> "running", key |-> 0 ]
Ok == [ kind |-> "ok", key |-> 0 ]
Error(kind, key) == [ kind |-> kind, key |-> key ]

IsError(r) == r.kind \notin { "running", "ok" }

\* `?` and bail!: exec returns the error to main_impl, which returns it to main
Bail(kind, key) ==
    /\ result' = Error(kind, key)
    /\ pc' = "report"

\* ----------------------------------------------------------------- actions
\* main_impl: TTS::new()?
NewTTS ==
    /\ pc = "main"
    /\ \E ok \in BOOLEAN :
         IF ok THEN pc' = "read" /\ UNCHANGED result
         ELSE Bail("client", 0)
    /\ UNCHANGED << env, files, seq, seen, filtered, work, maybe_voice, calls,
                    requests, completions, results, writer, next_item,
                    audio_writes, stdout, exit_status >>

\* read_source
ReadSource ==
    /\ pc = "read"
    /\ IF ~source.readable THEN Bail("parse", 0)
       ELSE IF \E i \in 1..Len(source.rows) : source.rows[i] = << >>
            THEN Bail("empty_row", 0)
            ELSE /\ pc' = IF source.rows = << >> THEN "voices" ELSE "filter"
                 /\ UNCHANGED result
    /\ UNCHANGED << env, files, seq, seen, filtered, work, maybe_voice, calls,
                    requests, completions, results, writer, next_item,
                    audio_writes, stdout, exit_status >>

\* One row through the enumerate/filter_map of exec.
FilterRow ==
    /\ pc = "filter"
    /\ seq < Len(source.rows)
    /\ LET wi == NewFromRecord(seq, source.rows[seq + 1])
           keep == ~Rejected(options, files, seen, wi)
           out == IF keep THEN Append(filtered, wi) ELSE filtered
       IN /\ seen' = IF keep THEN seen \cup { wi.record_hash } ELSE seen
          /\ filtered' = out
          /\ seq' = seq + 1
          /\ pc' = IF seq + 1 < Len(source.rows) THEN "filter"
                   ELSE IF out = << >> THEN "voices" ELSE "fold"
    /\ UNCHANGED << env, files, work, maybe_voice, calls, requests,
                    completions, results, writer, next_item, audio_writes,
                    result, stdout, exit_status >>

\* The fold of exec taking the collected items last to first
NextToFoldReversed(items, done) == items[Len(items) - done]

\* The fold of exec takes the collected items first to last.
NextToFold(items, done) == items[done + 1]

\* One work item through the fold of exec.
FoldItem ==
    /\ pc = "fold"
    /\ Len(work.work_items) < Len(filtered)
    /\ LET wi == NextToFold(filtered, Len(work.work_items))
       IN work' = AddWorkItem(work, wi)
    /\ pc' = IF Len(work.work_items) + 1 < Len(filtered) THEN "fold" ELSE "voices"
    /\ UNCHANGED << env, files, seq, seen, filtered, maybe_voice, calls,
                    requests, completions, results, writer, next_item,
                    audio_writes, result, stdout, exit_status >>

\* tts.list_voices(None) and the selection of the voice in exec
SelectVoice ==
    /\ pc = "voices"
    /\ IF ~polly.ok THEN Bail("backend", 0) /\ UNCHANGED << maybe_voice, calls >>
       ELSE IF ~IsSome(polly.voices)
       THEN Bail("no_voices", 0) /\ UNCHANGED << maybe_voice, calls >>
       ELSE LET matching == MatchingVoices(polly.voices[1], options.voice)
            IN IF ConversionFails(matching)
               THEN Bail("convert", 0) /\ UNCHANGED << maybe_voice, calls >>
               ELSE LET found == FindVoice(options, Converted(matching))
                    IN /\ maybe_voice' = found
                       /\ IF IsSome(found)
                          THEN /\ pc' = "dispatch"
                               /\ calls' = [ k \in DOMAIN work.needs_tts |->
                                               [ state |-> "new", audio |-> None ] ]
                               /\ UNCHANGED result
                          ELSE Bail("voice_not_found", 0) /\ UNCHANGED calls
    /\ UNCHANGED << env, files, seq, seen, filtered, work, requests,
                    completions, results, writer, next_item, audio_writes,
                    stdout, exit_status >>

\* The request generate_one builds for the task (key, sentence).
RequestOf(key) ==
    SynthesisInput(work.needs_tts[key], maybe_voice[1], options.neural)

\* The next future polled, were join_all to stop polling new futures once an
\* earlier one has failed
MayStartUnlessFailed(cs, k) ==
    /\ cs[k].state = "new"
    /\ \A j \in DOMAIN cs : j < k => cs[j].state # "new"
    /\ \A j \in DOMAIN cs : cs[j].state \notin { "err", "noaudio" }

\* join_all polls the generate_one futures in task order, each for the first
\* time after those before it, whatever became of them.
MayStart(cs, k) ==
    /\ cs[k].state = "new"
    /\ \A j \in DOMAIN cs : j < k => cs[j].state # "new"

\* A generate_one future polled for the first time sends its request.
StartCall ==
    /\ pc = "dispatch"
    /\ \E k \in DOMAIN calls :
         /\ MayStart(calls, k)
         /\ calls' = [ calls EXCEPT ![k].state = "pending" ]
         /\ requests' = Append(requests, RequestOf(k))
    /\ UNCHANGED << env, files, pc, seq, seen, filtered, work, maybe_voice,
                    completions, results, writer, next_item, audio_writes,
                    result, stdout, exit_status >>

\* generate_one after synthesize_speech answered: Ok((key, bytes)), the
\* backend's error, or "Unable to get bytes from result."
CompleteCall ==
    /\ pc = "dispatch"
    /\ \E k \in DOMAIN calls :
         /\ calls[k].state = "pending"
         /\ \E outcome \in { "ok", "err", "noaudio" } :
              calls' = [ calls EXCEPT ![k] =
                           [ state |-> outcome,
                             audio |-> IF outcome = "ok"
                                       THEN Some(AudioOf(RequestOf(k)))
                                       ELSE None ] ]
         /\ completions' = Append(completions, k)
    /\ UNCHANGED << env, files, pc, seq, seen, filtered, work, maybe_voice,
                    requests, results, writer, next_item, audio_writes,
                    result, stdout, exit_status >>

Settled(c) == c.state \in { "ok", "err", "noaudio" }

\* The first Err when a missing audio stream is not taken for a failure
FirstFailureIgnoringNoAudio(cs) ==
    LET failed == { k \in DOMAIN cs : cs[k].state = "err" }
    IN IF failed = {} THEN None
       ELSE Some(CHOOSE k \in failed : \A j \in failed : k <= j)

\* The Err of the call that failed first in time
FirstFailureInTime(cs) ==
    LET failed == { n \in 1..Len(completions) : cs[completions[n]].state # "ok" }
    IN IF failed = {} THEN None
       ELSE Some(completions[CHOOSE n \in failed : \A m \in failed : n <= m])

\* collect::<Result<Vec<_>>> over the outputs in task order: the first Err
FirstFailure(cs) ==
    LET failed == { k \in DOMAIN cs : cs[k].state # "ok" }
    IN IF failed = {} THEN None
       ELSE Some(CHOOSE k \in failed : \A j \in failed : k <= j)

\* collect::<BTreeMap<u64, Bytes>> of the (key, bytes) pairs
Collected(cs) == [ k \in { j \in DOMAIN cs : IsSome(cs[j].audio) } |-> cs[k].audio[1] ]

\* Ready as try_join_all would be: as soon as one future has failed
JoinReadyOnFirstError(cs) ==
    \/ \A k \in DOMAIN cs : Settled(cs[k])
    \/ \E k \in DOMAIN cs : cs[k].state \in { "err", "noaudio" }

\* Ready only once some future has delivered an output
JoinReadyNonEmpty(cs) ==
    /\ DOMAIN cs # {}
    /\ \A k \in DOMAIN cs : Settled(cs[k])

\* join_all is ready when every future has delivered its output, at once when
\* there is no future.
JoinReady(cs) == \A k \in DOMAIN cs : Settled(cs[k])

\* generate_many returns once join_all is ready.
JoinAll ==
    /\ pc = "dispatch"
    /\ JoinReady(calls)
    /\ LET first == FirstFailure(calls)
       IN IF IsSome(first)
          THEN /\ Bail(IF calls[first[1]].state = "err" THEN "synthesis"
                       ELSE "no_audio", first[1])
               /\ UNCHANGED results
          ELSE /\ results' = Some(Collected(calls))
               /\ pc' = "open"
               /\ UNCHANGED result
    /\ UNCHANGED << env, files, seq, seen, filtered, work, maybe_voice, calls,
                    requests, completions, writer, next_item, audio_writes,
                    stdout, exit_status >>

\* wb.from_path(&options.target)?
OpenTarget ==
    /\ pc = "open"
    /\ \E ok \in BOOLEAN :
         IF ok
         THEN /\ writer' = [ open |-> TRUE, rows |-> << >>, flushed |-> FALSE ]
              /\ pc' = IF work.work_items = << >> THEN "flush" ELSE "emit"
              /\ UNCHANGED result
         ELSE Bail("io", 0) /\ UNCHANGED writer
    /\ UNCHANGED << env, files, seq, seen, filtered, work, maybe_voice, calls,
                    requests, completions, results, next_item, audio_writes,
                    stdout, exit_status >>

\* What File::create leaves when write_all fails: the file, cut short.
Truncated == << >>

\* The work item, were the sound field pushed onto its own record
ItemAfterEmitInPlace(wi) == [ wi EXCEPT !.record = OutputRow(wi) ]

\* The loop borrows the work items from work_items.iter() and pushes the
\* sound field onto a clone of the record: the item is left as it was.
ItemAfterEmit(wi) == wi

\* The steps of an iteration done when write_record is the first of them
StepsDoneRowFirst(outcome) ==
    CASE outcome = "row" -> { }
      [] outcome = "create" -> { "row" }
      [] outcome = "write" -> { "row", "create" }
      [] OTHER -> { "row", "create", "write" }

\* The steps of an iteration that are done when it ends with the outcome:
\* AsyncFile::create, write_all, write_record in this order, each followed
\* by ? ("ok": none failed; otherwise the step that failed).
StepsDone(outcome) ==
    CASE outcome = "create" -> { }
      [] outcome = "write" -> { "create" }
      [] outcome = "row" -> { "create", "write" }
      [] OTHER -> { "create", "write", "row" }

\* One iteration of the emission loop of exec.
EmitItem ==
    /\ pc = "emit"
    /\ next_item < Len(work.work_items)
    /\ LET wi == work.work_items[next_item + 1]
           path == AudioPath(options, wi)
       IN IF wi.sentence_hash \in DOMAIN results[1]
          THEN LET res == results[1][wi.sentence_hash]
               IN \E outcome \in { "ok", "create", "write", "row" } :
                    LET done == StepsDone(outcome)
                    IN /\ files' = IF "write" \in done
                                   THEN WriteFile(files, path, res)
                                   ELSE IF "create" \in done
                                        THEN WriteFile(files, path, Truncated)
                                        ELSE files
                       /\ audio_writes' =
                            IF "write" \in done
                            THEN Append(audio_writes,
                                        [ path |-> Resolve(path), bytes |-> res ])
                            ELSE audio_writes
                       /\ writer' = IF "row" \in done
                                    THEN [ writer EXCEPT
                                             !.rows = Append(@, OutputRow(wi)) ]
                                    ELSE writer
                       /\ IF outcome = "ok"
                          THEN /\ work' = [ work EXCEPT !.work_items[next_item + 1] =
                                                        ItemAfterEmit(wi) ]
                               /\ next_item' = next_item + 1
                               /\ pc' = IF next_item + 1 < Len(work.work_items)
                                        THEN "emit" ELSE "flush"
                               /\ UNCHANGED result
                          ELSE Bail("io", 0) /\ UNCHANGED << next_item, work >>
          ELSE /\ Bail("missing_result", wi.sentence_hash)
               /\ UNCHANGED << files, audio_writes, writer, next_item, work >>
    /\ UNCHANGED << env, seq, seen, filtered, maybe_voice, calls,
                    requests, completions, results, stdout, exit_status >>

\* writer.flush()?; Ok(())
Flush ==
    /\ pc = "flush"
    /\ \E ok \in BOOLEAN :
         IF ok
         THEN /\ writer' = [ writer EXCEPT !.flushed = TRUE ]
              /\ result' = Ok
              /\ pc' = "report"
         ELSE Bail("io", 0) /\ UNCHANGED writer
    /\ UNCHANGED << env, files, seq, seen, filtered, work, maybe_voice, calls,
                    requests, completions, results, next_item, audio_writes,
                    stdout, exit_status >>

\* main: prints the error, if any, and returns
Report ==
    /\ pc = "report"
    /\ stdout' = IF IsError(result) THEN Append(stdout, result) ELSE stdout
    /\ exit_status' = 0
    /\ pc' = "exited"
    /\ UNCHANGED << env, files, seq, seen, filtered, work, maybe_voice, calls,
                    requests, completions, results, writer, next_item,
                    audio_writes, result >>

Next ==
    \/ NewTTS
    \/ ReadSource
    \/ FilterRow
    \/ FoldItem
    \/ SelectVoice
    \/ StartCall
    \/ CompleteCall
    \/ JoinAll
    \/ OpenTarget
    \/ EmitItem
    \/ Flush
    \/ Report

\* ------------------------------------------------------------------ inputs
FieldValues == { << "a" >>, << "b" >> }

\* Records of n fields
Records(n) == [ 1..n -> FieldValues ]

\* The sources of at most cells fields in all whose rows have one length:
\* the reader is built without flexible(true).
Sources(cells) ==
    UNION { [ 1..mn[1] -> Records(mn[2]) ] :
              mn \in { x \in (0..cells) \X (0..cells) : x[1] * x[2] <= cells } }

Voice(id, gender, engines) ==
    [ id |-> id, gender |-> gender,
      language_name |-> Some(<< "E" >>), language_code |-> Some(<< "e" >>),
      supported_engines |-> engines ]

GoodVoice ==
    Voice(Some(<< "A" >>), Some(<< "F" >>), Some(<< StandardStr, << "N", "e", "u", "r", "a", "l" >> >>))

\* Voices as DescribeVoices may list them: every field is optional.
VoiceUniverse ==
    { Voice(None, Some(<< "F" >>), None) } \cup
    { Voice(id, gender, engines) :
        id \in { Some(<< "A" >>), Some(<< "b" >>) },
        gender \in { None, Some(<< "F" >>) },
        engines \in { None, Some(<< StandardStr, << "N", "e", "u", "r", "a", "l" >> >>) } }

Catalogues == UNION { [ 1..m -> VoiceUniverse ] : m \in 0..MaxVoices }

DefaultOptions ==
    [ force |-> FALSE, neural |-> FALSE, voice |-> << "a" >>,
      audio_directory |-> OutDir ]

DefaultPolly == [ ok |-> TRUE, voices |-> Some(<< GoodVoice >>) ]

\* Audio files that may be on disk before the run: those of the sentence "a".
OldPaths ==
    { Resolve(Join(d, OutputPath(SentenceHash(<< << "a" >> >>)))) : d \in AudioDirs }

InitProgram ==
    /\ pc = "main"
    /\ files = disk
    /\ seq = 0
    /\ seen = {}
    /\ filtered = << >>
    /\ work = NewWorkBundle
    /\ maybe_voice = None
    /\ calls = EmptyMap
    /\ requests = << >>
    /\ completions = << >>
    /\ results = None
    /\ writer = [ open |-> FALSE, rows |-> << >>, flushed |-> FALSE ]
    /\ next_item = 0
    /\ audio_writes = << >>
    /\ result = NoError
    /\ stdout = << >>
    /\ exit_status = -1

\* Any source, default options, nothing on disk.
InitRows ==
    /\ \/ source \in [ readable : { TRUE }, rows : Sources(MaxCells) ]
       \/ source = [ readable |-> FALSE, rows |-> << >> ]
    /\ options = DefaultOptions
    /\ polly = DefaultPolly
    /\ disk = EmptyMap

\* Shorter sources, with or without --force, with old audio files on disk.
InitForce ==
    /\ source \in [ readable : { TRUE }, rows : Sources(MaxSkipCells) ]
    /\ options \in [ force : BOOLEAN, neural : { FALSE }, voice : { << "a" >> },
                     audio_directory : AudioDirs ]
    /\ polly = DefaultPolly
    /\ \E old \in SUBSET OldPaths \ { {} } : disk = [ p \in old |-> OldAudio ]

\* A source of one row or of none, any catalogue, any requested voice.
InitVoices ==
    /\ source \in [ readable : { TRUE }, rows : { << >>, << << << "a" >> >> >> } ]
    /\ options \in [ force : { FALSE }, neural : BOOLEAN,
                     voice : { << "a" >>, << "B" >> },
                     audio_directory : { OutDir } ]
    /\ \/ polly \in [ ok : { TRUE }, voices : { Some(c) : c \in Catalogues } ]
       \/ polly = [ ok |-> TRUE, voices |-> None ]
       \/ polly = [ ok |-> FALSE, voices |-> None ]
    /\ disk = EmptyMap

Init == (InitRows \/ InitForce \/ InitVoices) /\ InitProgram

Spec == Init /\ [][Next]_vars

\* ------------------------------------------------------------ properties
\* The rows exec works on: those of the source, none when read_source fails.
Rows ==
    IF source.readable /\ \A i \in 1..Len(source.rows) : source.rows[i] # << >>
    THEN source.rows ELSE << >>

Front(s) == SubSeq(s, 1, Len(s) - 1)
Last(s) == s[Len(s)]

\* The run ended and main_impl returned Ok(()).
Success == pc \in { "report", "exited" } /\ result = Ok

\* generate_many has returned (with the map or with an error).
Dispatched == IsSome(results) \/ result.kind \in { "synthesis", "no_audio" }

\* Row i (1-based) has no identical row before it.
FirstOccurrence(i) == \A j \in 1..(i - 1) : Rows[j] # Rows[i]

\* Row i is skipped because --force is set and the file named after its
\* sentence is in the working directory when the run starts.
SkippedRow(i) ==
    options.force /\ << OutputPath(SentenceHash(Rows[i])) >> \in DOMAIN disk

\* The rows exec accepts, as positions in the source, ascending.
AcceptedRows ==
    SortedKeys({ i \in 1..Len(Rows) : FirstOccurrence(i) /\ ~SkippedRow(i) })

\* The output rows that carry the fields of the record.
OutputRowsOf(record) ==
    { k \in 1..Len(writer.rows) : Front(writer.rows[k]) = record }

\* C1 (dedup by row): of two identical rows the later one is never a work
\* item; on a successful run exactly one output row carries their fields (none
\* when the rows are skipped), and there is one audio write per output row, so
\* the later row has no output row and no audio write of its own.
C1_DedupByRow ==
    /\ \A k \in 1..Len(filtered) : FirstOccurrence(filtered[k].seq + 1)
    /\ \A k \in 1..Len(work.work_items) : FirstOccurrence(work.work_items[k].seq + 1)
    /\ Success =>
         /\ \A j \in 1..Len(Rows) :
              ~FirstOccurrence(j) =>
                  Cardinality(OutputRowsOf(Rows[j])) = IF SkippedRow(j) THEN 0 ELSE 1
         /\ Len(audio_writes) = Len(writer.rows)

\* A successful run over a source with two identical rows, the first emitted.
C1_Witness ==
    /\ Success
    /\ \E j \in 1..Len(Rows) : \E i \in 1..(j - 1) :
         /\ Rows[i] = Rows[j]
         /\ \E k \in 1..Len(writer.rows) : Front(writer.rows[k]) = Rows[j]
    /\ Len(writer.rows) >= 2

\* The sentence hashes of the accepted rows.
AcceptedSentenceHashes ==
    { SentenceHash(Rows[AcceptedRows[n]]) : n \in 1..Len(AcceptedRows) }

\* The requests sent to Polly for the sentence.
RequestsFor(sentence) == { n \in 1..Len(requests) : requests[n].text = sentence }

\* C2 (dedup by sentence, not row): once generate_many has returned, one
\* synthesis call has been issued per distinct sentence hash of the accepted
\* rows; two accepted rows that share field 0 and differ in a later field
\* have one call between them, and on a successful run both are in the output
\* with the same sound field.
C2_DedupBySentence ==
    Dispatched =>
        LET acc == AcceptedRows
        IN /\ Len(requests) = Cardinality({ SentenceHash(Rows[acc[n]]) : n \in 1..Len(acc) })
           /\ \A m, n \in 1..Len(acc) :
                LET r1 == Rows[acc[m]]
                    r2 == Rows[acc[n]]
                IN (r1[1] = r2[1] /\ r1 # r2) =>
                     /\ Cardinality(RequestsFor(r1[1])) = 1
                     /\ Success =>
                          \E k, l \in 1..Len(writer.rows) :
                             /\ k # l
                             /\ Front(writer.rows[k]) = r1
                             /\ Front(writer.rows[l]) = r2
                             /\ Last(writer.rows[k]) = Last(writer.rows[l])

\* A successful run with two accepted rows of one sentence and another
\* sentence beside them.
C2_Witness ==
    /\ Success
    /\ Len(requests) = 2
    /\ \E m, n \in 1..Len(AcceptedRows) :
         /\ Rows[AcceptedRows[m]][1] = Rows[AcceptedRows[n]][1]
         /\ Rows[AcceptedRows[m]] # Rows[AcceptedRows[n]]
    /\ Len(writer.rows) = 3

\* C3 (order preservation): on a successful run the output rows, without
\* their sound field, are the accepted rows in source order, whatever the
\* order in which the synthesis calls completed.
C3_OrderPreserved ==
    Success =>
        LET acc == AcceptedRows
        IN /\ Len(writer.rows) = Len(acc)
           /\ \A k \in 1..Len(writer.rows) : Front(writer.rows[k]) = Rows[acc[k]]

\* A successful run whose two first work items are in descending hash order
\* and whose synthesis calls completed in the opposite order of the rows.
C3_Witness ==
    /\ Success
    /\ Len(work.work_items) >= 2
    /\ work.work_items[1].sentence_hash > work.work_items[2].sentence_hash
    /\ completions = << work.work_items[2].sentence_hash,
                        work.work_items[1].sentence_hash >>
    /\ Len(writer.rows) >= 2

\* A successful run whose calls completed in the order of the rows, against
\* the order of the task map.
C3_WitnessOtherOrder ==
    /\ Success
    /\ Len(work.work_items) >= 2
    /\ completions = << work.work_items[1].sentence_hash,
                        work.work_items[2].sentence_hash >>
    /\ work.work_items[1].sentence_hash > work.work_items[2].sentence_hash

\* The place the run writes the audio file of row i at.
AudioFileOf(i) ==
    Resolve(options.audio_directory \o << OutputPath(SentenceHash(Rows[i])) >>)

\* C4 (skip-existing flag): with --force set, a row whose audio file is in
\* the audio directory when the run starts is dropped: it is no work item,
\* no synthesis call is issued for its sentence and it has no output row.
C4_SkipExisting ==
    \A i \in 1..Len(Rows) :
        (options.force /\ AudioFileOf(i) \in DOMAIN disk) =>
            /\ \A k \in 1..Len(filtered) : filtered[k].seq # i - 1
            /\ RequestsFor(Rows[i][1]) = {}
            /\ OutputRowsOf(Rows[i]) = {}

\* Some synthesis call of the run failed.
SomeCallFailed == \E k \in DOMAIN calls : calls[k].state \in { "err", "noaudio" }

\* C5 (all-or-nothing synthesis): once a synthesis call has failed, the run
\* never opens the target, writes no output row and no audio file, and ends
\* with the synthesis error; generate_many returns no partial map.
C5_AllOrNothing ==
    SomeCallFailed =>
        /\ ~writer.open
        /\ writer.rows = << >>
        /\ audio_writes = << >>
        /\ files = disk
        /\ results = None
        /\ pc \in { "dispatch", "report", "exited" }
        /\ pc # "dispatch" => result.kind \in { "synthesis", "no_audio" }

\* A finished run of two calls: one succeeded and completed first, the other
\* failed.
C5_Witness ==
    /\ pc = "exited"
    /\ Len(completions) = 2
    /\ calls[completions[1]].state = "ok"
    /\ calls[completions[2]].state \in { "err", "noaudio" }

\* The sound field of row i, spelled out.
ExpectedSoundField(i) ==
    << "[", "s", "o", "u", "n", "d", ":", "p", "a", "r", "r", "o", "t", "_" >>
        \o Decimal(SentenceHash(Rows[i])) \o << ".", "m", "p", "3", "]" >>

\* C6 (output rows): on a successful run there is one output row per
\* accepted row and no other; it is the row's fields followed by the one
\* field [sound:parrot_<sentence hash>.mp3].
C6_OutputRows ==
    Success =>
        LET acc == AcceptedRows
        IN /\ Len(writer.rows) = Len(acc)
           /\ \A k \in 1..Len(writer.rows) :
                writer.rows[k] = Rows[acc[k]] \o << ExpectedSoundField(acc[k]) >>
           /\ \A n \in 1..Len(acc) : Cardinality(OutputRowsOf(Rows[acc[n]])) = 1

\* A successful run that emitted two rows and dropped another.
C6_Witness ==
    /\ Success
    /\ writer.flushed
    /\ Len(writer.rows) = 2
    /\ Len(Rows) = 3

\* The paths of the audio files the run wrote.
WrittenPaths == { audio_writes[n].path : n \in 1..Len(audio_writes) }

\* C7 as claimed: on a successful run the number of audio file writes is the
\* number of distinct sentence hashes of the accepted rows.
C7_OneWritePerFingerprint ==
    Success => Len(audio_writes) = Cardinality(AcceptedSentenceHashes)

\* C7 (audio writes): on a successful run the audio file is written once per
\* accepted row: the writes are as many as the accepted rows, the file of a
\* sentence hash is written once for each accepted row that has the hash, and
\* the distinct files written are as many as the distinct sentence hashes.
C7_OneWritePerItem ==
    Success =>
        LET acc == AcceptedRows
        IN /\ Len(audio_writes) = Len(acc)
           /\ Cardinality(WrittenPaths)
                = Cardinality({ SentenceHash(Rows[acc[n]]) : n \in 1..Len(acc) })
           /\ \A n \in 1..Len(acc) :
                Cardinality({ m \in 1..Len(audio_writes) :
                                audio_writes[m].path = AudioFileOf(acc[n]) })
                = Cardinality({ m \in 1..Len(acc) :
                                  SentenceHash(Rows[acc[m]]) = SentenceHash(Rows[acc[n]]) })

\* A successful run that wrote one audio file twice.
C7_Witness ==
    /\ Success
    /\ Len(audio_writes) = 2
    /\ Cardinality(WrittenPaths) = 1

\* C8 (errors are terminal): a run that ended in an error printed one
\* message and its exit status is not the success status 0.
C8_ErrorExitsNonZero ==
    (pc = "exited" /\ IsError(result)) =>
        /\ Len(stdout) = 1
        /\ exit_status # 0

\* C9 (--force overwrites): with --force set, a row whose audio file is in
\* the audio directory when the run starts is still processed, and on a
\* successful run the file holds the newly synthesised audio.
C9_ForceOverwrites ==
    \A i \in 1..Len(Rows) :
        (options.force /\ FirstOccurrence(i) /\ AudioFileOf(i) \in DOMAIN disk) =>
            /\ seq >= i => \E k \in 1..Len(filtered) : filtered[k].seq = i - 1
            /\ Success => /\ OutputRowsOf(Rows[i]) # {}
                          /\ files[AudioFileOf(i)] # OldAudio

\* exec is past the selection of the voice.
VoiceDecided ==
    \/ pc \in { "dispatch", "open", "emit", "flush" }
    \/ pc \in { "report", "exited" } /\ result.kind \notin { "client", "parse", "empty_row" }

\* describe_voices answered with a catalogue.
HasCatalogue == polly.ok /\ IsSome(polly.voices)

\* The voice has the requested id, whatever the case of the letters.
MatchesRequested(v) ==
    IsSome(v.id) /\ ToLowercase(v.id[1]) = ToLowercase(options.voice)

\* The voice lists the neural engine.
SupportsNeural(v) ==
    /\ IsSome(v.supported_engines)
    /\ \E n \in 1..Len(v.supported_engines[1]) :
         ToLowercase(v.supported_engines[1][n]) = NeuralStr

\* The voice lacks a field TTSVoice needs.
Incomplete(v) ==
    ~IsSome(v.gender) \/ ~IsSome(v.language_name) \/ ~IsSome(v.language_code)

\* The catalogue voices that have the requested id and, when --neural is
\* given, neural support, in catalogue order.
SuitableVoices ==
    SelectSeq(polly.voices[1],
              LAMBDA v : MatchesRequested(v) /\ (options.neural => SupportsNeural(v)))

\* The run was aborted with the error before any synthesis call, without
\* opening the target and without writing an audio file.
AbortedEarly(kind) ==
    /\ pc \in { "report", "exited" }
    /\ result.kind = kind
    /\ maybe_voice = None
    /\ requests = << >>
    /\ ~writer.open
    /\ audio_writes = << >>
    /\ files = disk

\* The voice was selected and every synthesis call names it.
Selected(v) ==
    /\ IsSome(maybe_voice)
    /\ maybe_voice[1].id = v.id[1]
    /\ result.kind \notin { "voice_not_found", "convert" }
    /\ \A n \in 1..Len(requests) : requests[n].voice_id = v.id[1]

\* C10 as claimed: when the catalogue has no voice with the requested id
\* (and neural support if requested) the run aborts with voice-not-found
\* before any synthesis; when it has one, that voice is selected.
C10_NotFoundOrSelected ==
    (VoiceDecided /\ HasCatalogue) =>
        IF SuitableVoices = << >> THEN AbortedEarly("voice_not_found")
        ELSE Selected(Head(SuitableVoices))

\* C10 (voice selection): a catalogue voice with the requested id that lacks
\* gender, language name or language code aborts the run with a conversion
\* error; otherwise the run aborts with voice-not-found when no voice has
\* the requested id (and neural support if requested), and selects the first
\* such voice of the catalogue when there is one.  Both aborts come before
\* any synthesis call, target or audio file.
C10_VoiceSelection ==
    (VoiceDecided /\ HasCatalogue) =>
        IF \E n \in 1..Len(polly.voices[1]) :
              MatchesRequested(polly.voices[1][n]) /\ Incomplete(polly.voices[1][n])
        THEN AbortedEarly("convert")
        ELSE IF SuitableVoices = << >> THEN AbortedEarly("voice_not_found")
        ELSE Selected(Head(SuitableVoices))

\* Voice-not-found although a voice has the requested id in another case:
\* --neural is given and the voice is standard only.
C10_Witness ==
    /\ pc = "exited"
    /\ result.kind = "voice_not_found"
    /\ options.neural
    /\ \E n \in 1..Len(polly.voices[1]) :
         /\ MatchesRequested(polly.voices[1][n])
         /\ polly.voices[1][n].id[1] # options.voice

\* A successful run with the second of two voices of the requested id.
C10_WitnessSelected ==
    /\ Success
    /\ Len(requests) = 1
    /\ options.neural
    /\ Len(polly.voices[1]) = 2
    /\ MatchesRequested(polly.voices[1][1])
    /\ MatchesRequested(polly.voices[1][2])
    /\ ~SupportsNeural(polly.voices[1][1])
    /\ Selected(polly.voices[1][2])
    /\ maybe_voice[1].id # options.voice

\* The filter has seen every row and the fold every accepted item.
BundleBuilt ==
    /\ pc \notin { "main", "read", "filter", "fold" }
    /\ seq = Len(source.rows)
    /\ Len(work.work_items) = Len(filtered)

\* The sentence hashes of the work items of the bundle.
ItemSentenceHashes ==
    { work.work_items[k].sentence_hash : k \in 1..Len(work.work_items) }

\* C11 (bundle/result consistency): the sentence hash of every work item is
\* a key of needs_tts, and once the bundle is built the keys of needs_tts are
\* exactly those hashes; when generate_many succeeds the keys of its result
\* map are the keys of needs_tts; so the lookup of the emission loop always
\* resolves and the run never ends with "Couldn't find result".
C11_BundleResultConsistent ==
    /\ ItemSentenceHashes \subseteq DOMAIN work.needs_tts
    /\ BundleBuilt => DOMAIN work.needs_tts = ItemSentenceHashes
    /\ IsSome(results) =>
         /\ DOMAIN results[1] = DOMAIN work.needs_tts
         /\ ItemSentenceHashes \subseteq DOMAIN results[1]
    /\ result.kind # "missing_result"

\* Three items over two sentences have all been looked up and emitted.
C11_Witness ==
    /\ IsSome(results)
    /\ next_item = 3
    /\ Cardinality(DOMAIN work.needs_tts) = 2
    /\ Len(writer.rows) = 3

\* The synthesis calls that have not delivered their output yet.
Unsettled == { k \in DOMAIN calls : ~Settled(calls[k]) }

\* C12 (dispatch and join): the requests sent are, in task order, one per
\* entry of needs_tts that has been started, never two for one entry; while
\* an entry is not started the next call can start, however many calls are in
\* flight and whatever became of the earlier ones; and generate_many has
\* returned, with the map or with an error, only when every entry has had its
\* call and every call has completed.
C12_AllStartedAllAwaited ==
    /\ LET keys == SortedKeys(DOMAIN calls)
       IN /\ Len(requests) = Cardinality({ k \in DOMAIN calls : calls[k].state # "new" })
          /\ \A n \in 1..Len(requests) :
               /\ calls[keys[n]].state # "new"
               /\ requests[n].text = work.needs_tts[keys[n]]
    /\ (pc = "dispatch" /\ \E k \in DOMAIN calls : calls[k].state = "new")
         => ENABLED StartCall
    /\ Unsettled # {} => pc = "dispatch" /\ result = NoError /\ results = None
    /\ Dispatched =>
         /\ DOMAIN calls = DOMAIN work.needs_tts
         /\ Unsettled = {}
         /\ Len(requests) = Cardinality(DOMAIN work.needs_tts)
         /\ Len(completions) = Cardinality(DOMAIN work.needs_tts)

\* generate_many returned its error after the call that failed first and the
\* call that succeeded after it had both completed.
C12_Witness ==
    /\ Dispatched
    /\ Len(completions) = 2
    /\ calls[completions[1]].state = "err"
    /\ calls[completions[2]].state = "ok"
    /\ result.kind = "synthesis"

\* Every call of a task map of two is in flight at once.
C12_WitnessAllInFlight ==
    /\ pc = "dispatch"
    /\ Cardinality(DOMAIN calls) = 2
    /\ \A k \in DOMAIN calls : calls[k].state = "pending"

\* The synthesis calls known to have failed.
FailedCalls == { k \in DOMAIN calls : calls[k].state \in { "err", "noaudio" } }

\* C13 as stated (cancellation on failure): once a synthesis call has failed
\* no further synthesis call is started.
C13_NoStartAfterFailure ==
    [][FailedCalls # {} => requests' = requests]_vars

\* C13 (no cancellation, results discarded): a failure does not stop the
\* dispatch: while an entry of needs_tts is not started its call can start
\* even though an earlier call is known to have failed, and when
\* generate_many returns an error every entry has had its call and every call
\* has completed; the results of the calls that succeeded are then dropped:
\* there is no result map, the target is not opened and no audio file is
\* written or changed.
C13_NoCancellation ==
    /\ (pc = "dispatch" /\ FailedCalls # {}
          /\ \E k \in DOMAIN calls : calls[k].state = "new")
         => ENABLED StartCall
    /\ FailedCalls # {} =>
         /\ results = None
         /\ ~writer.open
         /\ audio_writes = << >>
         /\ files = disk
    /\ result.kind \in { "synthesis", "no_audio" } =>
         /\ FailedCalls # {}
         /\ Len(requests) = Cardinality(DOMAIN work.needs_tts)
         /\ \A k \in DOMAIN calls : Settled(calls[k])

\* A call has failed while another entry of needs_tts is not started yet.
C13_Witness ==
    /\ pc = "dispatch"
    /\ FailedCalls # {}
    /\ \E k \in DOMAIN calls : calls[k].state = "new"

\* C14 (phase ordering and frame): a synthesis call starts only when the
\* filter has seen every row and the fold every accepted item; from the voice
\* lookup on, through dispatch and emission, no step changes the seen set, the
\* needs_tts map or a work item (the sound field goes onto a copy of the
\* record); and the result map is set, the target opened or written and an
\* audio file created or written only when every entry of needs_tts has had
\* its call and every call has completed.
C14_PhaseFrame ==
    [][ /\ requests' # requests => BundleBuilt
        /\ pc \in { "voices", "dispatch", "open", "emit", "flush", "report", "exited" }
             => /\ seen' = seen
                /\ filtered' = filtered
                /\ work' = work
        /\ (results' # results \/ writer' # writer \/ files' # files
              \/ audio_writes' # audio_writes)
             => /\ BundleBuilt
                /\ DOMAIN calls = DOMAIN work.needs_tts
                /\ Len(requests) = Cardinality(DOMAIN work.needs_tts)
                /\ \A k \in DOMAIN calls : Settled(calls[k]) ]_vars

\* Two items over two sentences have been emitted and the bundle still holds
\* the items as the filter made them.
C14_Witness ==
    /\ pc = "flush"
    /\ next_item = 2
    /\ Len(requests) = 2
    /\ Len(writer.rows) = 2
    /\ work.work_items = filtered
    /\ writer.rows[1] # work.work_items[1].record

\* The audio file of the k-th work item, in the audio directory.
ItemAudioFile(k) ==
    Resolve(Join(options.audio_directory, work.work_items[k].output_path))

\* C15 (I/O error during emission): the rows emitted are those of the first
\* next_item work items, each after its audio file was written, so the file
\* a row refers to is on disk; at most one audio write has no row yet, and
\* then the run is failing with the I/O error of that row; a run that stops
\* before its last item ends with the I/O error, and no file that was not on
\* disk before exists for an item after the one that failed.
C15_AbortAtFailure ==
    /\ Len(writer.rows) = next_item
    /\ \A k \in 1..Len(writer.rows) :
         /\ k <= Len(audio_writes)
         /\ audio_writes[k].path = ItemAudioFile(k)
         /\ ItemAudioFile(k) \in DOMAIN files
         /\ writer.rows[k] = OutputRow(work.work_items[k])
    /\ Len(audio_writes) \in { next_item, next_item + 1 }
    /\ Len(audio_writes) = next_item + 1 =>
         /\ result.kind = "io"
         /\ audio_writes[next_item + 1].path = ItemAudioFile(next_item + 1)
    /\ (pc \in { "report", "exited" } /\ writer.open
          /\ next_item < Len(work.work_items))
         => result.kind = "io"
    /\ DOMAIN files \subseteq
         DOMAIN disk \cup
           { ItemAudioFile(k) :
               k \in 1..(IF next_item < Len(work.work_items)
                         THEN next_item + 1 ELSE next_item) }

\* The run ended on an I/O error at its second item of three: the first
\* item's row is emitted and its file is on disk, the third item's is not.
C15_Witness ==
    /\ pc = "exited"
    /\ result.kind = "io"
    /\ Len(work.work_items) = 3
    /\ next_item = 1
    /\ Len(writer.rows) = 1
    /\ ItemAudioFile(1) \in DOMAIN files
    /\ ItemAudioFile(3) \notin DOMAIN files

\* The text of every entry of needs_tts is field 0 of the first work item
\* that has the entry's sentence hash.
FirstItemText ==
    \A h \in DOMAIN work.needs_tts :
      \E k \in 1..Len(work.work_items) :
        /\ work.work_items[k].sentence_hash = h
        /\ \A j \in 1..(k - 1) : work.work_items[j].sentence_hash # h
        /\ work.needs_tts[h] = work.work_items[k].record[1]
        /\ work.needs_tts[h] = source.rows[work.work_items[k].seq + 1][1]

\* C16 (first accepted row wins): no step removes an entry of needs_tts or
\* changes its text, a step adds at most one entry, and after every step the
\* text of each entry is field 0 of the first accepted row, in the order of
\* the source, that has the entry's sentence hash; a later accepted row with
\* that hash adds no entry.
C16_FirstAcceptedRowWins ==
    [][ /\ \A h \in DOMAIN work.needs_tts :
             /\ h \in DOMAIN work'.needs_tts
             /\ work'.needs_tts[h] = work.needs_tts[h]
        /\ Cardinality(DOMAIN work'.needs_tts)
             <= Cardinality(DOMAIN work.needs_tts) + 1
        /\ (Len(work'.work_items) > Len(work.work_items)
              /\ Last(work'.work_items).sentence_hash \in DOMAIN work.needs_tts)
             => work'.needs_tts = work.needs_tts
        /\ FirstItemText' ]_vars

\* The fold has taken three rows, two of them of one sentence, into two
\* entries.
C16_Witness ==
    /\ pc = "voices"
    /\ Len(work.work_items) = 3
    /\ Cardinality(DOMAIN work.needs_tts) = 2
    /\ work.work_items[1].sentence_hash = work.work_items[3].sentence_hash
    /\ work.work_items[1].record # work.work_items[3].record

\* C17 (audio writing is idempotent): after a successful run the audio file
\* of every work item holds exactly the bytes the result map has for the
\* item's sentence hash, however many items share the hash; every audio write
\* of the run put those bytes at that path; and every other file on disk is a
\* file that was there before the run, with the content it had.
C17_AudioIdempotent ==
    Success =>
      /\ \A k \in 1..Len(work.work_items) :
           LET h == work.work_items[k].sentence_hash
           IN /\ ItemAudioFile(k) \in DOMAIN files
              /\ files[ItemAudioFile(k)] = results[1][h]
              /\ results[1][h] = AudioOf(RequestOf(h))
              /\ audio_writes[k] = [ path |-> ItemAudioFile(k), bytes |-> results[1][h] ]
      /\ Len(audio_writes) = Len(work.work_items)
      /\ \A p \in DOMAIN files :
           \/ \E k \in 1..Len(work.work_items) : p = ItemAudioFile(k)
           \/ p \in DOMAIN disk /\ files[p] = disk[p]

\* A successful run wrote one file twice and another once.
C17_Witness ==
    /\ Success
    /\ Len(audio_writes) = 3
    /\ audio_writes[1] = audio_writes[3]
    /\ audio_writes[1].path # audio_writes[2].path
    /\ files[audio_writes[1].path] = audio_writes[1].bytes

\* A successful run replaced an audio file that was on disk before it and
\* left another one alone.
C17_WitnessOldFiles ==
    /\ Success
    /\ Len(audio_writes) >= 1
    /\ \E p \in DOMAIN disk : files[p] # disk[p]
    /\ \E p \in DOMAIN disk : files[p] = disk[p]

\* C18 (sequence numbers): the sequence number of every item the filter let
\* through is the 0-based position of its row in the source, rejected rows
\* counted; once the bundle is built its work items are those items, strictly
\* increasing in sequence number and pairwise distinct in record hash, and
\* the seen set is the set of their record hashes.
C18_SequenceNumbers ==
    /\ \A k \in 1..Len(filtered) :
         /\ filtered[k].seq \in 0..(seq - 1)
         /\ filtered[k].record = source.rows[filtered[k].seq + 1]
    /\ seen = { filtered[k].record_hash : k \in 1..Len(filtered) }
    /\ BundleBuilt =>
         LET items == work.work_items
         IN /\ items = filtered
            /\ \A k \in 1..Len(items) :
                 items[k].record = source.rows[items[k].seq + 1]
            /\ \A j, k \in 1..Len(items) :
                 j < k => /\ items[j].seq < items[k].seq
                          /\ items[j].record_hash # items[k].record_hash
            /\ seen = { items[k].record_hash : k \in 1..Len(items) }

\* The bundle is built from three rows of which the second was rejected.
C18_Witness ==
    /\ BundleBuilt
    /\ Len(source.rows) = 3
    /\ Len(work.work_items) = 2
    /\ work.work_items[1].seq = 0
    /\ work.work_items[2].seq = 2
    /\ Cardinality(seen) = 2

\* C19 (completion order does not matter): what generate_many returns is a
\* function of the task map and of the outcome of each call, whatever the
\* order in which the calls completed: when no call failed, the map from
\* every key of needs_tts to the audio of its request; when some calls
\* failed, the error of the failed call with the smallest key, and no map.
C19_OrderIndependent ==
    Dispatched =>
      IF FailedCalls = {}
      THEN /\ results = Some([ k \in DOMAIN work.needs_tts |-> AudioOf(RequestOf(k)) ])
           /\ result.kind \notin { "synthesis", "no_audio" }
      ELSE LET first == CHOOSE k \in FailedCalls : \A j \in FailedCalls : k <= j
           IN /\ results = None
              /\ result.key = first
              /\ result.kind = IF calls[first].state = "err"
                               THEN "synthesis" ELSE "no_audio"

\* Two calls failed, the one with the larger key first in time and in another
\* way; the error returned is that of the call with the smaller key.
C19_Witness ==
    /\ Dispatched
    /\ Len(completions) = 2
    /\ completions[1] > completions[2]
    /\ calls[completions[1]].state = "err"
    /\ calls[completions[2]].state = "noaudio"
    /\ result.kind = "no_audio"
    /\ result.key = completions[2]

\* Two calls succeeded, the one with the larger key first in time.
C19_WitnessSuccess ==
    /\ IsSome(results)
    /\ Len(completions) = 2
    /\ completions[1] > completions[2]

\* The source parses and exec accepts none of its rows: it has no row, or
\* every row is rejected by the filter.
NothingAccepted ==
    /\ source.readable
    /\ Rows = source.rows
    /\ AcceptedRows = << >>

\* C20 (empty bundle): when no row is accepted the run still looks the voice
\* up: it reaches the dispatch only with a voice selected, and ends with
\* voice-not-found when the catalogue has no suitable voice (and no voice of
\* the requested id fails to convert); with a voice, generate_many has no call
\* to make and returns the empty map at once, no audio file is written, the
\* emission loop is not entered, and the run ends successfully with the
\* target created and empty, unless creating or flushing the target fails.
C20_EmptyBundle ==
    NothingAccepted =>
      /\ work = NewWorkBundle
      /\ requests = << >>
      /\ audio_writes = << >>
      /\ files = disk
      /\ writer.rows = << >>
      /\ pc # "emit"
      /\ pc \in { "dispatch", "open", "flush" } => IsSome(maybe_voice)
      /\ pc = "dispatch" => calls = EmptyMap /\ ENABLED JoinAll
      /\ IsSome(results) => results[1] = EmptyMap
      /\ pc = "exited" =>
           /\ result.kind \in { "ok", "io", "client", "backend", "no_voices",
                                "convert", "voice_not_found" }
           /\ IsSome(maybe_voice) <=> result.kind \in { "ok", "io" }
           /\ result = Ok =>
                /\ writer.open
                /\ writer.flushed
                /\ results = Some(EmptyMap)
           /\ (HasCatalogue /\ result.kind # "client") =>
                (result.kind = "voice_not_found"
                   <=> /\ SuitableVoices = << >>
                       /\ \A n \in 1..Len(polly.voices[1]) :
                            MatchesRequested(polly.voices[1][n])
                              => ~Incomplete(polly.voices[1][n]))

\* A run over a source whose rows are all rejected ended successfully with
\* an empty target and no synthesis call.
C20_Witness ==
    /\ NothingAccepted
    /\ source.rows # << >>
    /\ pc = "exited"
    /\ result = Ok
    /\ writer.open
    /\ writer.rows = << >>
    /\ requests = << >>

\* A run over a source without rows ended with voice-not-found.
C20_WitnessVoiceNotFound ==
    /\ NothingAccepted
    /\ source.rows = << >>
    /\ pc = "exited"
    /\ result.kind = "voice_not_found"

====
